---- MODULE Spec2Model ----
(***************************************************************************)
(* barn: executables of a directory served as HTTP endpoints.              *)
(*                                                                         *)
(* One request is followed from the router (main.rs, App wiring) through   *)
(* the basic-auth middleware and request_validator (utils.rs) to           *)
(* root_handler (main.rs), which spawns the executable and streams         *)
(*     once(header) . select(stdout, stderr) . once(trailer)               *)
(* as the body of a 200 response.                                          *)
(*                                                                         *)
(* Strings that the code inspects character by character (request paths,   *)
(* process output) are sequences of one-character tokens; strings it only  *)
(* compares or copies (user names, messages, template text) are TLA+       *)
(* strings.  A formatted string is the sequence of the pieces format!      *)
(* joins.                                                                  *)
(***************************************************************************)
EXTENDS Naturals, Sequences, FiniteSets, TLC

VARIABLES
    config,     \* BarnState.config: [root, user, group], never written after Init
    pc,         \* position of the request in the pipeline
    req,        \* the request: [path, creds]
    fileKind,   \* what root.join(executable) names on disk when the validator looks
    checked,    \* program_path the validator examined (utils.rs:147), NoPath before
    decision,   \* what request_validator returned, NoDecision before it ran
    spawned,    \* program_path handed to Command::new (main.rs:34), NoPath before
    status,     \* HTTP status of the response, 0 while none was produced
    body,       \* response body items handed to the transport so far, in order
    phase,      \* position in final_stream (main.rs:53)
    wrote,      \* per channel: every byte the child has written so far
    rd,         \* per channel: number of bytes ReaderStream has taken
    closed,     \* per channel: the child's write end is closed
    rdone,      \* per channel: ReaderStream dropped its reader (EOF or error seen)
    selLast,    \* futures::stream::select: PollNext of the round-robin strategy
    selState,   \* futures::stream::select: which sides have finished
    exitCode,   \* exit status of the child, NoExit while it runs
    eofAt,      \* per channel: 1 + length of the body when its ReaderStream
                \* reported end-of-stream, 0 before (history, read by no action)
    sent,       \* number of body items the transport has written to the client
    writable,   \* the client's connection takes what the transport writes
    rival,      \* how many of the latest body items, in a row, are chunks given
                \* while the other channel had a chunk ready as well (history,
                \* read by no action)
    prev        \* the request answered before this one and its outcome, NoPrev
                \* when there was none (history, read by no action)

vars == <<config, pc, req, fileKind, checked, decision, spawned, status, body,
          phase, wrote, rd, closed, rdone, selLast, selState, exitCode, eofAt,
          sent, writable, rival, prev>>

reqVars    == <<req, fileKind>>
authVars   == <<checked, decision>>
streamVars == <<phase, wrote, rd, closed, rdone, selLast, selState, exitCode, eofAt,
                sent, writable, rival>>

-----------------------------------------------------------------------------
(* Bounds of the model.                                                    *)

MaxUsers == 2
MaxGroups == 2
MaxOut == 2
MaxErr == 1
MaxBuffered == 2

-----------------------------------------------------------------------------
(* Small helpers on sequences.                                             *)

Range(s) == {s[i] : i \in 1..Len(s)}

SeqsUpTo(S, n) == UNION {[1..k -> S] : k \in 0..n}

RECURSIVE Flatten(_)
Flatten(ss) == IF ss = <<>> THEN <<>> ELSE Head(ss) \o Flatten(Tail(ss))

IsPrefix(p, s) == Len(p) <= Len(s) /\ SubSeq(s, 1, Len(p)) = p

-----------------------------------------------------------------------------
(* constants.rs                                                            *)

\* [a-zA-Z0-9_\-]: the characters a file name may start with
WordChars == {"a", "b"}

\* [a-zA-Z0-9_\-\.]
NameChars == WordChars \cup {"."}

\* every character a request path is built from; "%2F" is an encoded slash,
\* three characters of which none but the digit and the letter are name characters
PathChars == NameChars \cup {"/", "%2F"}

\* FILENAME_REGEX.is_match: ^[a-zA-Z0-9_\-][a-zA-Z0-9_\-\.]*?$
FILENAME_REGEX(name) ==
    /\ Len(name) >= 1
    /\ name[1] \in WordChars
    /\ \A i \in 2..Len(name) : name[i] \in NameChars

VIEWER_TEMPLATE_STR == "viewer.html"
VIEWER_TEMPLATE_BYTES == "viewer.html"
VIEWER_ENDING_BYTES == "</div> </body> </html>"

-----------------------------------------------------------------------------
(* config.rs                                                               *)

UserNames == {"alice", "bob"}
Passwords == {"pw1", "pw2"}
GroupNames == {"passwordless", "g1"}

\* a group regex of the configuration: a one-character literal, or "." (any
\* character).  Regex::is_match searches, it is not anchored.
Patterns == {"a", "b"}

is_match(regex, text) ==
    \E i \in 1..Len(text) : regex = "." \/ text[i] = regex

User(u, p, gs) == [username |-> u, password |-> p, groups |-> gs]
Group(n, r) == [name |-> n, regex |-> r]

\* users.groups may name a group that no [[group]] entry defines ("ghost")
UserPool ==
    { User("alice", "pw1", <<"g1">>),
      User("alice", "pw1", <<"ghost">>),
      User("bob", "pw1", <<"g1", "passwordless">>) }

GroupPool ==
    { Group("passwordless", "b"), Group("g1", "a"), Group("g1", "b") }

default_root == <<".">>

Configs ==
    { [root |-> default_root, user |-> us, group |-> gs] :
        us \in SeqsUpTo(UserPool, MaxUsers), gs \in SeqsUpTo(GroupPool, MaxGroups) }

\* alice may run what contains "a"; what contains "b" runs without a password
ExampleConfig ==
    [root |-> default_root,
     user |-> <<User("alice", "pw1", <<"g1">>)>>,
     group |-> <<Group("g1", "a"), Group("passwordless", "b")>>]

-----------------------------------------------------------------------------
(* The request.                                                            *)

NoPassword == "<no password>"

\* no Authorization header at all
NoHeader == [header |-> FALSE, user_id |-> "", password |-> NoPassword]

\* Authorization: Basic base64(user_id[:password])
Basic(u, p) == [header |-> TRUE, user_id |-> u, password |-> p]

Credentials ==
    { NoHeader,
      Basic("alice", "pw1"),
      Basic("alice", "pw2"),
      Basic("alice", NoPassword),
      Basic("bob", "pw1") }

Paths ==
    { <<"/">>,
      <<"/", "a">>,
      <<"/", "b">>,
      <<"/", "a", ".", "a">>,
      <<"/", ".", "a">>,
      <<"/", "a", "/", "b">>,
      <<"/", ".", ".", "/", "a">>,
      <<"/", "a", "%2F", "b">> }

FileKinds == {"file", "dir", "missing"}

NoPath == <<>>
NoRequest == [path |-> NoPath, creds |-> NoHeader]

-----------------------------------------------------------------------------
(* main.rs: routing.  web::scope("/{path_string}") is a prefix match whose *)
(* dynamic segment takes one or more characters other than "/".            *)

RECURSIVE SegmentLen(_)
SegmentLen(s) ==
    IF s = <<>> \/ Head(s) = "/" THEN 0 ELSE 1 + SegmentLen(Tail(s))

ScopeMatches(path) ==
    /\ Len(path) >= 2
    /\ path[1] = "/"
    /\ path[2] # "/"

\* the raw text of {path_string}
ScopeSegment(path) == SubSeq(path, 2, 1 + SegmentLen(Tail(path)))

\* what the scope leaves for its services to match; root_handler is #[get("")]
ScopeRest(path) == SubSeq(path, 2 + SegmentLen(Tail(path)), Len(path))

PercentDecode(c) == IF c = "%2F" THEN "/" ELSE c

\* the handler taking the request path where it should take the parameter
PathParamWholePath(path) == path

\* web::Path<String>: the single path parameter, percent-decoded
PathParam(path) == [i \in 1..Len(ScopeSegment(path)) |-> PercentDecode(ScopeSegment(path)[i])]

\* PathBuf::join: an absolute argument replaces the base
join(root, p) ==
    IF p # <<>> /\ p[1] = "/" THEN p ELSE root \o <<"/">> \o p

-----------------------------------------------------------------------------
(* Response bodies.  Every item of a body has the same shape: a literal    *)
(* piece of text, or one transformed chunk of process output.              *)

Lit(t) == [kind |-> "lit", text |-> t, src |-> "", raw |-> <<>>, frags |-> <<>>]

Chunk(s, bytes, fs) == [kind |-> "chunk", text |-> "", src |-> s, raw |-> bytes, frags |-> fs]

WARNING_OPEN == "<p class=\"warning\">"
WARNING_CLOSE == "</p> </div> </body> </html>"

\* a request path (or a part of one) copied into a body
PathText(p) == [kind |-> "path", text |-> "", src |-> "", raw |-> p, frags |-> <<>>]

\* format!("{}{}{}{}", *VIEWER_TEMPLATE_STR, "<p class=\"warning\">", message, "</p> ...")
Templated(message) ==
    <<Lit(VIEWER_TEMPLATE_STR), Lit(WARNING_OPEN)>> \o message \o <<Lit(WARNING_CLOSE)>>

\* utils.rs, fn templated_error: the response is built from `message`; the
\* formatted text `msg` only becomes the cause of the InternalError
templated_error(message, status_code) ==
    [allow |-> FALSE, message |-> message, status |-> status_code, body |-> <<Lit(message)>>]

\* IntoHttpError::http_error on Err / None
http_error(pieces, status_code) == [status |-> status_code, body |-> pieces]

\* a templated_error that sends the message without the template
trait_templated_error_bare(message, status_code) == http_error(message, status_code)

\* IntoHttpError::templated_error
trait_templated_error(message, status_code) == http_error(Templated(message), status_code)

\* IntoHttpError::generic_error
generic_error == trait_templated_error(<<Lit("Something went wrong!")>>, 500)

-----------------------------------------------------------------------------
(* utils.rs: request_validator.                                            *)

Allow == [allow |-> TRUE, message |-> "", status |-> 0, body |-> <<>>]

NoDecision == [allow |-> FALSE, message |-> "<not run>", status |-> 0, body |-> <<>>]

RECURSIVE trim_start_matches(_)
trim_start_matches(path) ==
    IF path # <<>> /\ Head(path) = "/" THEN trim_start_matches(Tail(path)) ELSE path

is_passwordless(cfg, executable) ==
    \E i \in 1..Len(cfg.group) :
        cfg.group[i].name = "passwordless" /\ is_match(cfg.group[i].regex, executable)

CredsMatch(entry, creds) ==
    entry.username = creds.user_id /\ entry.password = creds.password

\* a lookup that takes the last matching entry
user_opt_last(cfg, creds) ==
    IF \E i \in 1..Len(cfg.user) : CredsMatch(cfg.user[i], creds)
    THEN CHOOSE i \in 1..Len(cfg.user) :
            /\ CredsMatch(cfg.user[i], creds)
            /\ \A j \in (i + 1)..Len(cfg.user) : ~CredsMatch(cfg.user[j], creds)
    ELSE 0

\* config.user.iter().find(..): index of the first matching entry, 0 for None
user_opt(cfg, creds) ==
    IF \E i \in 1..Len(cfg.user) : CredsMatch(cfg.user[i], creds)
    THEN CHOOSE i \in 1..Len(cfg.user) :
            /\ CredsMatch(cfg.user[i], creds)
            /\ \A j \in 1..(i - 1) : ~CredsMatch(cfg.user[j], creds)
    ELSE 0

has_access(cfg, user, executable) ==
    \E i \in 1..Len(cfg.group) :
        /\ cfg.group[i].name \in Range(user.groups)
        /\ is_match(cfg.group[i].regex, executable)

request_validator(cfg, path, creds, kind) ==
    LET executable == trim_start_matches(path)
    IN  IF ~FILENAME_REGEX(executable)
          THEN templated_error("Disallowed filename", 400)
        ELSE IF kind # "file"
          THEN templated_error("Non-existent executable", 400)
        ELSE IF is_passwordless(cfg, executable)
          THEN Allow
        ELSE IF creds.password = NoPassword
          THEN templated_error("No password provided", 400)
        ELSE IF user_opt(cfg, creds) = 0
          THEN templated_error("Invalid credentials", 400)
        ELSE IF has_access(cfg, cfg.user[user_opt(cfg, creds)], executable)
          THEN Allow
        ELSE templated_error("You don't have access to this executable", 401)

-----------------------------------------------------------------------------
(* main.rs: default_handler.  `params` are the path parameters the router  *)
(* captured; web::Path<String> wants exactly one and answers 404 itself    *)
(* when there is none.                                                     *)

default_handler(params) ==
    IF Len(params) = 1
    THEN [status |-> 404, body |-> <<PathText(params[1])>>]
    ELSE [status |-> 404, body |-> <<Lit("wrong number of parameters")>>]

-----------------------------------------------------------------------------
(* The child process and its two pipes.                                    *)

Sides == {"stdout", "stderr"}

Other(s) == IF s = "stdout" THEN "stderr" ELSE "stdout"

\* process output: a letter, a newline, and the two bytes of a two-byte character
Bytes == {"a", "\n", "L", "C"}

Limit(s) == IF s = "stdout" THEN MaxOut ELSE MaxErr

NoExit == "running"
ExitCodes == {"success", "failure"}

SpawnOutcomes == {"ok", "spawn_err", "no_stdout", "no_stderr"}

-----------------------------------------------------------------------------
(* State after construction: the server listens, no request yet.           *)

\* no request was answered before this one
NoPrev == [req |-> NoRequest, fileKind |-> "missing", decision |-> NoDecision, status |-> 0]

Idle ==
    /\ pc = "idle"
    /\ req = NoRequest
    /\ fileKind = "missing"
    /\ checked = NoPath
    /\ decision = NoDecision
    /\ spawned = NoPath
    /\ status = 0
    /\ body = <<>>
    /\ phase = "none"
    /\ wrote = [s \in Sides |-> <<>>]
    /\ rd = [s \in Sides |-> 0]
    /\ closed = [s \in Sides |-> FALSE]
    /\ rdone = [s \in Sides |-> FALSE]
    /\ selLast = "Left"
    /\ selState = "Start"
    /\ exitCode = NoExit
    /\ eofAt = [s \in Sides |-> 0]
    /\ sent = 0
    /\ writable = TRUE
    /\ rival = 0
    /\ prev = NoPrev

Init == config \in Configs /\ Idle

-----------------------------------------------------------------------------
(* A request arrives.                                                      *)

Receive ==
    /\ pc = "idle"
    /\ \E p \in Paths, c \in Credentials, k \in FileKinds :
          /\ req' = [path |-> p, creds |-> c]
          /\ fileKind' = k
    /\ pc' = "received"
    /\ UNCHANGED <<config, prev, authVars, spawned, status, body, streamVars>>

\* App::default_service: no service of the App matches the path
DefaultService ==
    /\ pc = "received"
    /\ ~ScopeMatches(req.path)
    /\ status' = default_handler(<<>>).status
    /\ body' = default_handler(<<>>).body
    /\ pc' = "done"
    /\ UNCHANGED <<config, prev, reqVars, authVars, spawned, streamVars>>

\* HttpAuthentication::basic: the BasicAuth extractor finds no usable
\* Authorization header and the middleware answers the challenge itself;
\* request_validator, which takes a BasicAuth, is not called
ExtractFails ==
    /\ pc = "received"
    /\ ScopeMatches(req.path)
    /\ ~req.creds.header
    /\ status' = 401
    /\ body' = <<>>
    /\ pc' = "done"
    /\ UNCHANGED <<config, prev, reqVars, authVars, spawned, streamVars>>

\* a validator that refuses a request it has let through before
RequestValidatorOnce ==
    /\ pc = "received"
    /\ ScopeMatches(req.path)
    /\ req.creds.header
    /\ LET d == IF prev.req = req /\ prev.decision.allow
                THEN templated_error("Forbidden", 403)
                ELSE request_validator(config, req.path, req.creds, fileKind)
           fallback == default_handler(<<PathParam(req.path)>>)
       IN  /\ decision' = d
           /\ checked' = join(config.root, trim_start_matches(req.path))
           /\ IF ~d.allow
                THEN /\ status' = d.status
                     /\ body' = d.body
                     /\ pc' = "done"
              ELSE IF ScopeRest(req.path) = <<>>
                THEN /\ pc' = "handler"
                     /\ UNCHANGED <<status, body>>
              ELSE   /\ status' = fallback.status
                     /\ body' = fallback.body
                     /\ pc' = "done"
    /\ UNCHANGED <<config, prev, reqVars, spawned, streamVars>>

\* the middleware calls request_validator; on Ok the scope routes the request
RequestValidator ==
    /\ pc = "received"
    /\ ScopeMatches(req.path)
    /\ req.creds.header
    /\ LET d == request_validator(config, req.path, req.creds, fileKind)
           fallback == default_handler(<<PathParam(req.path)>>)
       IN  /\ decision' = d
           /\ checked' = join(config.root, trim_start_matches(req.path))
           /\ IF ~d.allow
                THEN /\ status' = d.status
                     /\ body' = d.body
                     /\ pc' = "done"
              ELSE IF ScopeRest(req.path) = <<>>
                THEN /\ pc' = "handler"
                     /\ UNCHANGED <<status, body>>
              ELSE   /\ status' = fallback.status
                     /\ body' = fallback.body
                     /\ pc' = "done"
    /\ UNCHANGED <<config, prev, reqVars, spawned, streamVars>>

\* root_handler up to the point where it returns the response
RootHandler ==
    /\ pc = "handler"
    /\ \E outcome \in SpawnOutcomes :
        LET path == PathParam(req.path)
            program_path == join(config.root, path)
            spawn_error ==
                trait_templated_error(
                    <<Lit("Unable to spawn executable '"), PathText(path), Lit("'")>>, 500)
        IN  CASE outcome = "spawn_err" ->
                    /\ status' = spawn_error.status
                    /\ body' = spawn_error.body
                    /\ pc' = "done"
                    /\ UNCHANGED <<spawned, phase>>
              [] outcome \in {"no_stdout", "no_stderr"} ->
                    /\ spawned' = program_path
                    /\ status' = generic_error.status
                    /\ body' = generic_error.body
                    /\ pc' = "done"
                    /\ UNCHANGED phase
              [] outcome = "ok" ->
                    /\ spawned' = program_path
                    /\ status' = 200
                    /\ phase' = "start"
                    /\ pc' = "streaming"
                    /\ UNCHANGED body
    /\ UNCHANGED <<config, prev, reqVars, authVars, wrote, rd, closed, rdone, selLast,
                   selState, exitCode, eofAt,
                   sent, writable, rival>>

\* a request from its arrival to the response root_handler returns
Next ==
    \/ Receive
    \/ DefaultService
    \/ ExtractFails
    \/ RequestValidator
    \/ RootHandler

Spec == Init /\ [][Next]_vars

\* the server, whose BarnState is shared by all requests (main.rs:104), gets
\* a further request once the earlier one has its response; the file system
\* is whatever it is by then
NextRequest ==
    /\ pc \in {"done", "streaming"}
    /\ prev = NoPrev
    /\ prev' = [req |-> req, fileKind |-> fileKind, decision |-> decision,
                status |-> status]
    /\ \E p \in Paths, c \in Credentials, k \in FileKinds :
          /\ req' = [path |-> p, creds |-> c]
          /\ fileKind' = k
    /\ pc' = "received"
    /\ checked' = NoPath
    /\ decision' = NoDecision
    /\ spawned' = NoPath
    /\ status' = 0
    /\ body' = <<>>
    /\ phase' = "none"
    /\ UNCHANGED <<config, wrote, rd, closed, rdone, selLast, selState, exitCode,
                   eofAt, sent, writable, rival>>

\* two requests, one after the other, under the example configuration
InitTwice == config = ExampleConfig /\ Idle

NextTwice ==
    \/ Receive
    \/ DefaultService
    \/ ExtractFails
    \/ RequestValidator
    \/ RootHandler
    \/ NextRequest

SpecTwice == InitTwice /\ [][NextTwice]_vars

-----------------------------------------------------------------------------
(* utils.rs: transform_bytes.                                              *)

\* String::from_utf8(..) is Ok: every lead byte is followed by its continuation
RECURSIVE from_utf8_ok(_)
from_utf8_ok(bytes) ==
    IF bytes = <<>> THEN TRUE
    ELSE IF Head(bytes) = "C" THEN FALSE
    ELSE IF Head(bytes) = "L"
      THEN Len(bytes) >= 2 /\ bytes[2] = "C" /\ from_utf8_ok(Tail(Tail(bytes)))
    ELSE from_utf8_ok(Tail(bytes))

\* position of the first newline, 0 when there is none
RECURSIVE FirstNewline(_)
FirstNewline(str) ==
    IF str = <<>> THEN 0
    ELSE IF Head(str) = "\n" THEN 1
    ELSE IF FirstNewline(Tail(str)) = 0 THEN 0
    ELSE 1 + FirstNewline(Tail(str))

\* str::lines: split at newlines; a final newline opens no further line
RECURSIVE lines(_)
lines(str) ==
    IF str = <<>> THEN <<>>
    ELSE IF FirstNewline(str) = 0 THEN <<str>>
    ELSE <<SubSeq(str, 1, FirstNewline(str) - 1)>>
            \o lines(SubSeq(str, FirstNewline(str) + 1, Len(str)))

\* one "<pre class=\"{class}\">{line}</pre>\n" per line, joined
transform_bytes(bytes, class) ==
    [i \in 1..Len(lines(bytes)) |-> [class |-> class, line |-> lines(bytes)[i]]]

-----------------------------------------------------------------------------
(* main.rs:46-48: the two ReaderStreams and futures::stream::select.       *)

Pending == [t |-> "Pending", src |-> "", bytes |-> <<>>]
Ended == [t |-> "None", src |-> "", bytes |-> <<>>]
Failed(s) == [t |-> "Err", src |-> s, bytes |-> <<>>]
Item(s, bytes) == [t |-> "Item", src |-> s, bytes |-> bytes]

\* a reader that starts over at every read
AvailFromStart(s) == wrote[s]

\* bytes in the pipe: written and not yet read
Avail(s) == SubSeq(wrote[s], rd[s] + 1, Len(wrote[s]))

\* a reader that takes a failed read for the end of the channel
ReaderPollErrorAsEnd(s, fault) ==
    IF rdone[s] \/ fault THEN Ended
    ELSE IF Avail(s) # <<>> THEN Item(s, Avail(s))
    ELSE IF closed[s] THEN Ended
    ELSE Pending

\* channel s has a chunk for the next read
Ready(s) == ~rdone[s] /\ Avail(s) # <<>>

\* ReaderStream::poll_next on channel s; `fault`: this read fails
ReaderPoll(s, fault) ==
    IF rdone[s] THEN Ended
    ELSE IF fault THEN Failed(s)
    ELSE IF Avail(s) # <<>> THEN Item(s, Avail(s))
    ELSE IF closed[s] THEN Ended
    ELSE Pending

\* stream1 is stdout_stream, stream2 is stderr_stream
SideOf(pollNext) == IF pollNext = "Left" THEN "stdout" ELSE "stderr"

\* a strategy that never changes sides
ToggleNever(pollNext) == pollNext

\* PollNext::toggle / other
Toggle(pollNext) == IF pollNext = "Left" THEN "Right" ELSE "Left"

\* InternalState::finish
finish(st, s) ==
    IF st = "Start" THEN (IF s = "stdout" THEN "LeftFinished" ELSE "RightFinished")
    ELSE IF st = "LeftFinished" /\ s = "stderr" THEN "BothFinished"
    ELSE IF st = "RightFinished" /\ s = "stdout" THEN "BothFinished"
    ELSE st

\* a merge that ends as soon as the second side polled has ended
poll_inner_first_end(st, s, r) ==
    IF r[s].t \in {"Item", "Err"}
    THEN [out |-> r[s], polled |-> {s}, st |-> st]
    ELSE LET st1 == IF r[s].t = "None" THEN finish(st, s) ELSE st
             o == Other(s)
         IN  IF r[o].t = "None"
             THEN [out |-> Ended, polled |-> {s, o}, st |-> finish(st1, o)]
             ELSE [out |-> r[o], polled |-> {s, o}, st |-> st1]

\* a merge that waits for the side polled first while it is pending
poll_inner_wait_first(st, s, r) ==
    IF r[s].t \in {"Item", "Err"}
    THEN [out |-> r[s], polled |-> {s}, st |-> st]
    ELSE IF r[s].t = "Pending"
    THEN [out |-> Pending, polled |-> {s}, st |-> st]
    ELSE LET st1 == finish(st, s)
             o == Other(s)
         IN  IF r[o].t = "None"
             THEN [out |-> Ended, polled |-> {s, o}, st |-> finish(st1, o)]
             ELSE [out |-> r[o], polled |-> {s, o}, st |-> st1]

\* poll_inner: poll `s` first, the other side when `s` has nothing to give.
\* r[x] is what polling side x returns now.
poll_inner(st, s, r) ==
    IF r[s].t \in {"Item", "Err"}
    THEN [out |-> r[s], polled |-> {s}, st |-> st]
    ELSE LET first_done == r[s].t = "None"
             st1 == IF first_done THEN finish(st, s) ELSE st
             o == Other(s)
         IN  IF r[o].t = "None"
             THEN [out |-> IF first_done THEN Ended ELSE Pending,
                   polled |-> {s, o}, st |-> finish(st1, o)]
             ELSE [out |-> r[o], polled |-> {s, o}, st |-> st1]

\* SelectWithStrategy::poll_next with the round-robin strategy of select()
select_poll(last, st, r) ==
    IF st = "Start"
      THEN [last |-> Toggle(last)] @@ poll_inner(st, SideOf(last), r)
    ELSE IF st = "BothFinished"
      THEN [last |-> last, out |-> Ended, polled |-> {}, st |-> st]
    ELSE LET s == IF st = "LeftFinished" THEN "stderr" ELSE "stdout"
         IN  [last |-> last, out |-> r[s], polled |-> {s},
              st |-> IF r[s].t = "None" THEN "BothFinished" ELSE st]

-----------------------------------------------------------------------------
(* The child process, while the response is open.                          *)

ProcWrite ==
    /\ pc = "streaming"
    /\ exitCode = NoExit
    /\ \E s \in Sides, b \in Bytes :
          /\ ~closed[s]
          /\ Len(wrote[s]) < Limit(s)
          /\ wrote' = [wrote EXCEPT ![s] = Append(@, b)]
    /\ UNCHANGED <<config, prev, pc, reqVars, authVars, spawned, status, body, phase, rd,
                   closed, rdone, selLast, selState, exitCode, eofAt,
                   sent, writable, rival>>

\* the child writes text: one letter
ProcWriteLetter ==
    /\ pc = "streaming"
    /\ exitCode = NoExit
    /\ \E s \in Sides :
          /\ ~closed[s]
          /\ Len(wrote[s]) < Limit(s)
          /\ wrote' = [wrote EXCEPT ![s] = Append(@, "a")]
    /\ UNCHANGED <<config, prev, pc, reqVars, authVars, spawned, status, body, phase, rd,
                   closed, rdone, selLast, selState, exitCode, eofAt,
                   sent, writable, rival>>

\* the child closes one of its output descriptors
ProcClose ==
    /\ pc = "streaming"
    /\ exitCode = NoExit
    /\ \E s \in Sides :
          /\ ~closed[s]
          /\ closed' = [closed EXCEPT ![s] = TRUE]
    /\ UNCHANGED <<config, prev, pc, reqVars, authVars, spawned, status, body, phase, wrote,
                   rd, rdone, selLast, selState, exitCode, eofAt,
                   sent, writable, rival>>

\* the child exits: both write ends are closed with it
ProcExit ==
    /\ pc = "streaming"
    /\ exitCode = NoExit
    /\ exitCode' \in ExitCodes
    /\ closed' = [s \in Sides |-> TRUE]
    /\ UNCHANGED <<config, prev, pc, reqVars, authVars, spawned, status, body, phase, wrote,
                   rd, rdone, selLast, selState, eofAt, sent, writable, rival>>

-----------------------------------------------------------------------------
(* The transport polls final_stream = start.chain(merged).chain(end)       *)
(* (main.rs:50-58).  Each action is one poll_next.                         *)

\* body items handed to the transport and not yet written to the client
Buffered == Len(body) - sent

\* a transport that polls the body however much it holds
CanPollAlways == TRUE

\* .streaming(final_stream): the transport polls the body stream only while
\* its write buffer is below its capacity
CanPoll == Buffered < MaxBuffered

\* the poll that produced an item goes on to write the buffer to the
\* connection, which takes all of it or, when it is not writable, nothing
Flushed(items) == IF writable THEN Len(items) ELSE sent

\* a chain that starts with merged_stream and has lost start_stream
PollStartWithoutHeader ==
    /\ pc = "streaming"
    /\ phase = "start"
    /\ CanPoll
    /\ UNCHANGED body
    /\ phase' = "merged"
    /\ sent' = Flushed(body')
    /\ UNCHANGED <<config, prev, pc, reqVars, authVars, spawned, status, wrote, rd,
                   closed, rdone, selLast, selState, exitCode, eofAt,
                   writable, rival>>

\* start_stream gives its one item
PollStart ==
    /\ pc = "streaming"
    /\ phase = "start"
    /\ CanPoll
    /\ body' = Append(body, Lit(VIEWER_TEMPLATE_BYTES))
    /\ phase' = "merged"
    /\ sent' = Flushed(body')
    /\ UNCHANGED <<config, prev, pc, reqVars, authVars, spawned, status, wrote, rd, closed,
                   rdone, selLast, selState, exitCode, eofAt,
                   writable, rival>>

\* start_stream is exhausted: the poll goes to merged_stream, and on to
\* end_stream in the same poll when merged_stream has ended
PollMerged ==
    /\ pc = "streaming"
    /\ phase = "merged"
    /\ CanPoll
    /\ \E faults \in SUBSET Sides :
        LET r == [s \in Sides |-> ReaderPoll(s, s \in faults)]
            sp == select_poll(selLast, selState, r)
        IN  /\ selLast' = sp.last
            /\ selState' = sp.st
            /\ rd' = [s \in Sides |->
                        IF s \in sp.polled /\ r[s].t = "Item" THEN Len(wrote[s]) ELSE rd[s]]
            /\ rdone' = [s \in Sides |->
                        rdone[s] \/ (s \in sp.polled /\ r[s].t \in {"None", "Err"})]
            /\ eofAt' = [s \in Sides |->
                        IF s \in sp.polled /\ r[s].t = "None" /\ eofAt[s] = 0
                        THEN Len(body) + 1 ELSE eofAt[s]]
            /\ rival' = IF sp.out.t = "Item" /\ from_utf8_ok(sp.out.bytes)
                          THEN (IF Ready(Other(sp.out.src)) THEN rival + 1 ELSE 0)
                        ELSE IF sp.out.t = "None" THEN 0
                        ELSE rival
            /\ CASE sp.out.t = "Item" /\ from_utf8_ok(sp.out.bytes) ->
                        /\ body' = Append(body, Chunk(sp.out.src, sp.out.bytes,
                                            transform_bytes(sp.out.bytes, sp.out.src)))
                        /\ UNCHANGED <<phase, pc>>
                 [] sp.out.t = "Item" /\ ~from_utf8_ok(sp.out.bytes) ->
                        \* .unwrap() panics inside the poll
                        /\ phase' = "panicked"
                        /\ pc' = "done"
                        /\ UNCHANGED body
                 [] sp.out.t = "Err" ->
                        \* the transport drops the response at the first Err item
                        /\ phase' = "failed"
                        /\ pc' = "done"
                        /\ UNCHANGED body
                 [] sp.out.t = "None" ->
                        /\ body' = Append(body, Lit(VIEWER_ENDING_BYTES))
                        /\ phase' = "end"
                        /\ UNCHANGED pc
                 [] sp.out.t = "Pending" ->
                        UNCHANGED <<body, phase, pc>>
            /\ sent' = Flushed(body')
    /\ UNCHANGED <<config, prev, reqVars, authVars, spawned, status, wrote, closed,
                   exitCode, writable>>

\* end_stream is exhausted: final_stream ends and the body is complete
PollEnd ==
    /\ pc = "streaming"
    /\ phase = "end"
    /\ CanPoll
    /\ UNCHANGED body
    /\ phase' = "finished"
    /\ sent' = Flushed(body')
    /\ pc' = "done"
    /\ UNCHANGED <<config, prev, reqVars, authVars, spawned, status, wrote, rd, closed,
                   rdone, selLast, selState, exitCode, eofAt,
                   writable, rival>>

\* the client stops reading: the connection is no longer writable
ClientStall ==
    /\ pc = "streaming"
    /\ writable
    /\ writable' = FALSE
    /\ UNCHANGED <<config, prev, pc, reqVars, authVars, spawned, status, body, phase,
                   wrote, rd, closed, rdone, selLast, selState, exitCode, eofAt,
                   sent, rival>>

\* the client reads again: the transport writes what it has buffered
ClientAccept ==
    /\ pc = "streaming"
    /\ ~writable
    /\ writable' = TRUE
    /\ sent' = Len(body)
    /\ UNCHANGED <<config, prev, pc, reqVars, authVars, spawned, status, body, phase,
                   wrote, rd, closed, rdone, selLast, selState, exitCode, eofAt,
                   rival>>

\* alice's request for "a" under ExampleConfig, as request_validator leaves it
InitStream ==
    /\ config = ExampleConfig
    /\ pc = "handler"
    /\ req = [path |-> <<"/", "a">>, creds |-> Basic("alice", "pw1")]
    /\ fileKind = "file"
    /\ checked = join(default_root, <<"a">>)
    /\ decision = Allow
    /\ spawned = NoPath
    /\ status = 0
    /\ body = <<>>
    /\ phase = "none"
    /\ wrote = [s \in Sides |-> <<>>]
    /\ rd = [s \in Sides |-> 0]
    /\ closed = [s \in Sides |-> FALSE]
    /\ rdone = [s \in Sides |-> FALSE]
    /\ selLast = "Left"
    /\ selState = "Start"
    /\ exitCode = NoExit
    /\ eofAt = [s \in Sides |-> 0]
    /\ sent = 0
    /\ writable = TRUE
    /\ rival = 0
    /\ prev = NoPrev

\* an authorized request from root_handler to the end of its response
NextStream ==
    \/ RootHandler
    \/ ProcWrite
    \/ ProcClose
    \/ ProcExit
    \/ PollStart
    \/ PollMerged
    \/ PollEnd

SpecStream == InitStream /\ [][NextStream]_vars

\* the same request with a child that writes text and a client that may
\* stop reading and resume
NextClient ==
    \/ RootHandler
    \/ ProcWriteLetter
    \/ ProcClose
    \/ ProcExit
    \/ PollStart
    \/ PollMerged
    \/ PollEnd
    \/ ClientStall
    \/ ClientAccept

SpecClient == InitStream /\ [][NextClient]_vars

\* refuted under Spec: the state SpecStream starts from is one a request reaches
StreamStartUnreachable == ~InitStream

-----------------------------------------------------------------------------
(* Vocabulary of the properties.                                           *)

\* the file name the request asks for
Filename == trim_start_matches(req.path)

\* routing and authorization are over for the request
Answered == pc \in {"handler", "streaming", "done"}

\* the request got as far as root_handler
ReachedHandler == pc \in {"handler", "streaming"} \/ status \in {200, 500}

\* some [[group]] named "passwordless" has a pattern matching the file name
PasswordlessMatch ==
    \E g \in Range(config.group) : g.name = "passwordless" /\ is_match(g.regex, Filename)

\* the credentials are those of a configured user
KnownUser ==
    /\ req.creds.header
    /\ req.creds.password # NoPassword
    /\ \E u \in Range(config.user) :
          u.username = req.creds.user_id /\ u.password = req.creds.password

\* the configured user the credentials select: the first in configuration order
TheUser ==
    config.user[CHOOSE i \in 1..Len(config.user) :
        /\ config.user[i].username = req.creds.user_id
        /\ config.user[i].password = req.creds.password
        /\ \A j \in 1..(i - 1) :
              ~(config.user[j].username = req.creds.user_id
                /\ config.user[j].password = req.creds.password)]

\* that user is in a group whose pattern matches the file name
InMatchingGroup ==
    \E g \in Range(config.group) :
        g.name \in Range(TheUser.groups) /\ is_match(g.regex, Filename)

BodySays(message) == \E i \in 1..Len(body) : body[i] = Lit(message)

IsHeader(item) == item = Lit(VIEWER_TEMPLATE_BYTES)
IsTrailer(item) == item = Lit(VIEWER_ENDING_BYTES)

HasTrailer == \E i \in 1..Len(body) : IsTrailer(body[i])

\* merged_stream has ended
MergedEnded == phase \in {"end", "finished"}

\* the bytes of channel s in the body, in body order
EmittedBytes(s) ==
    LET FromS(item) == item.kind = "chunk" /\ item.src = s
        chunks == SelectSeq(body, FromS)
    IN  Flatten([i \in 1..Len(chunks) |-> chunks[i].raw])

\* channel s is at end-of-stream: closed by the child and read to the last byte
AtEnd(s) == closed[s] /\ rd[s] = Len(wrote[s])

-----------------------------------------------------------------------------
(* C1: a request for a safely named, existing regular file reaches the     *)
(* handler if and only if a "passwordless" group matches the file name, or *)
(* its credentials are those of a configured user who is in a group        *)
(* matching the file name; credentials need not be present for the first.  *)
C1_AllowedIffAuthorized ==
    (Answered /\ FILENAME_REGEX(Filename) /\ fileKind = "file")
        => (ReachedHandler <=> (PasswordlessMatch \/ (KnownUser /\ InMatchingGroup)))

(* C2: a request for a safely named, existing file that a "passwordless"   *)
(* group matches is let through whatever its credentials are: none, wrong  *)
(* or valid.                                                               *)
C2_PasswordlessIgnoresCredentials ==
    (Answered /\ FILENAME_REGEX(Filename) /\ fileKind = "file" /\ PasswordlessMatch)
        => (status \notin {400, 401, 404} /\ ReachedHandler)

(* C3: a request routed to the scope whose file name does not match the    *)
(* safe-filename pattern is answered 400 "Disallowed filename" whatever    *)
(* its credentials (valid, invalid, none), and nothing is spawned for it.  *)
C3_UnsafeNameIs400 ==
    (pc = "done" /\ ScopeMatches(req.path) /\ ~FILENAME_REGEX(Filename))
        => (status = 400 /\ BodySays("Disallowed filename") /\ spawned = NoPath)

(* C4: a process is spawned only for a request the validator allowed, and  *)
(* the path spawned is the path the validator examined: root joined with   *)
(* the requested file name.  A refused request spawns nothing.             *)
C4_SpawnOnlyAfterAllow ==
    /\ spawned # NoPath =>
          /\ decision = Allow
          /\ spawned = checked
          /\ spawned = config.root \o <<"/">> \o Filename
    /\ (Answered /\ decision # Allow) => spawned = NoPath

C4_Witness == spawned # NoPath /\ status = 200 /\ spawned = config.root \o <<"/", "a", ".", "a">>

(* C5: per channel, the bytes in the body are, in order and without loss   *)
(* or repetition, the bytes the child wrote on that channel: a prefix of   *)
(* them while the response runs, all of them once the merged stream ended. *)
C5_PerSourceOrder ==
    \A s \in Sides :
        /\ IsPrefix(EmittedBytes(s), wrote[s])
        /\ MergedEnded => EmittedBytes(s) = wrote[s]

\* stdout, stderr, stdout: two chunks of one channel around one of the other
C5_Witness ==
    /\ phase = "finished"
    /\ \E i, j, k \in 1..Len(body) :
          /\ i < j /\ j < k
          /\ body[i].kind = "chunk" /\ body[i].src = "stdout"
          /\ body[j].kind = "chunk" /\ body[j].src = "stderr"
          /\ body[k].kind = "chunk" /\ body[k].src = "stdout"

(* C6: the merged stream ends, and the trailer is sent, only when both     *)
(* channels have reported end-of-stream; while one of them has and the     *)
(* other has not, it has not ended.  The exit status does not enter.       *)
C6_EndsOnlyAfterBothEof ==
    /\ (MergedEnded \/ HasTrailer) =>
            \A s \in Sides : eofAt[s] # 0 /\ rdone[s] /\ AtEnd(s)
    /\ \A s \in Sides :
            (eofAt[s] # 0 /\ eofAt[Other(s)] = 0) => (~MergedEnded /\ ~HasTrailer)
    /\ \A s \in Sides : eofAt[s] # 0 => AtEnd(s)

\* a chunk of one channel sent after the other reported end-of-stream, from a
\* child that exited with a failure status
C6_Witness ==
    /\ phase = "finished"
    /\ exitCode = "failure"
    /\ \E s \in Sides : \E i \in 1..Len(body) :
          /\ eofAt[s] # 0
          /\ i >= eofAt[s]
          /\ body[i].kind = "chunk"
          /\ body[i].src = Other(s)

(* C7: the body of a 200 response starts with the header fragment; what    *)
(* follows it are process chunks, then the trailer fragment, once, as the  *)
(* last item, and only after the merged stream has ended.                  *)
C7_HeaderChunksTrailer ==
    status = 200 =>
        /\ body # <<>> => IsHeader(body[1])
        /\ \A i \in 2..Len(body) :
              \/ body[i].kind = "chunk"
              \/ IsTrailer(body[i]) /\ i = Len(body)
        /\ HasTrailer => selState = "BothFinished"
        /\ HasTrailer <=> MergedEnded
        /\ phase \in {"merged", "end", "finished"} => body # <<>>

C7_Witness ==
    /\ phase = "finished"
    /\ Len(body) >= 4
    /\ IsHeader(body[1])
    /\ IsTrailer(body[Len(body)])

(* C8: every deliberate failure response (400, 401 or 500 from the         *)
(* validator or from root_handler) has the header fragment, a warning      *)
(* paragraph with the message, and the closing fragment as its body.       *)
C8_FailuresAreTemplated ==
    (pc = "done" /\ status \in {400, 401, 500} /\ (decision # NoDecision))
        => /\ Len(body) >= 4
           /\ body[1] = Lit(VIEWER_TEMPLATE_STR)
           /\ body[2] = Lit(WARNING_OPEN)
           /\ body[Len(body)] = Lit(WARNING_CLOSE)

\* the outcome the six steps give, taken in order
C9_FirstFailingCheck ==
    IF ~FILENAME_REGEX(Filename) THEN <<"Disallowed filename", 400>>
    ELSE IF fileKind # "file" THEN <<"Non-existent executable", 400>>
    ELSE IF PasswordlessMatch THEN <<"", 200>>
    ELSE IF ~req.creds.header \/ req.creds.password = NoPassword
      THEN <<"No password provided", 400>>
    ELSE IF ~KnownUser THEN <<"Invalid credentials", 400>>
    ELSE IF ~InMatchingGroup THEN <<"You don't have access to this executable", 401>>
    ELSE <<"", 200>>

(* C9: a request routed to the scope gets the outcome of the first check   *)
(* that fails, in the order filename safety, existence, passwordless       *)
(* bypass, credential presence, user lookup, group authorization; 401 is   *)
(* the answer only to a known user without a matching group.               *)
C9_ChecksInOrder ==
    (Answered /\ ScopeMatches(req.path)) =>
        /\ C9_FirstFailingCheck[2] = 200 => ReachedHandler
        /\ C9_FirstFailingCheck[2] # 200 =>
              /\ status = C9_FirstFailingCheck[2]
              /\ BodySays(C9_FirstFailingCheck[1])
        /\ status = 401 => (KnownUser /\ ~InMatchingGroup)

(* C10: a failed read ends the response: once a channel's reader has       *)
(* stopped before the end of its channel the response is over, with its    *)
(* 200 status, and its body has no trailer.                                *)
C10_ReadErrorEndsResponse ==
    /\ \A s \in Sides : (rdone[s] /\ ~AtEnd(s)) => phase = "failed"
    /\ phase = "failed" => (pc = "done" /\ status = 200 /\ ~HasTrailer)

\* the response failed after a chunk was sent, while the other channel still
\* had bytes to give
C10_Witness ==
    /\ phase = "failed"
    /\ Len(body) >= 2
    /\ \E s \in Sides : rdone[s] /\ ~rdone[Other(s)] /\ Avail(Other(s)) # <<>>

\* the chunks of channel s in the body, in order
ChunksOf(s) ==
    LET fromS(item) == item.kind = "chunk" /\ item.src = s
    IN  SelectSeq(body, fromS)

\* the <pre> fragments of channel s in the body, in order
EmittedFragments(s) ==
    Flatten([i \in 1..Len(ChunksOf(s)) |-> ChunksOf(s)[i].frags])

(* C11: in a complete response the fragments of each channel are one per   *)
(* line of what the child wrote on that channel, each holding the whole    *)
(* line, wherever the reads cut the output into chunks; every fragment of  *)
(* a chunk carries the class of the chunk's channel.                       *)
C11_OneFragmentPerLine ==
    phase = "finished" =>
        /\ \A i \in 1..Len(body) :
              body[i].kind = "chunk" =>
                  \A k \in 1..Len(body[i].frags) : body[i].frags[k].class = body[i].src
        /\ \A s \in Sides : EmittedFragments(s) = transform_bytes(wrote[s], s)

\* channel s is open and has nothing to read: its reader would wait
Stalled(s) == ~rdone[s] /\ ~closed[s] /\ Avail(s) = <<>>

(* C12: one channel does not hold up the other.  When the transport polls  *)
(* the merged stream while one channel has a chunk of text ready and the   *)
(* other is stalled, the poll gives that chunk (or fails on a read         *)
(* error): it never returns empty-handed to wait for the stalled channel.  *)
C12_StalledSideDoesNotBlock ==
    [][\A s \in Sides :
          (/\ phase = "merged"
           /\ Ready(s)
           /\ from_utf8_ok(Avail(s))
           /\ Stalled(Other(s))
           /\ selLast' # selLast)
          => \/ phase' = "failed"
             \/ body' = Append(body, Chunk(s, Avail(s), transform_bytes(Avail(s), s)))]_vars

\* the first poll of the merged stream starts with stdout, which is open and
\* silent, and gives the chunk of stderr
C12_Witness ==
    /\ phase = "merged"
    /\ Len(body) = 2
    /\ body[2].kind = "chunk"
    /\ body[2].src = "stderr"
    /\ Stalled("stdout")
    /\ wrote["stdout"] = <<>>
    /\ selLast = "Right"

\* the path has further segments after the one the scope takes as the file name
SeveralSegments(path) == ScopeMatches(path) /\ ScopeRest(path) # <<>>

(* C13: a request whose path has several segments, such as /a/b, does not  *)
(* resolve to /{filename}: it is answered 404 with the raw request path as *)
(* the whole body, authorization is not run and nothing is spawned.        *)
C13_UnmatchedRouteIs404 ==
    (pc = "done" /\ SeveralSegments(req.path)) =>
        /\ status = 404
        /\ body = <<PathText(req.path)>>
        /\ decision = NoDecision
        /\ checked = NoPath
        /\ spawned = NoPath

\* the request is the second of two and has its authorization outcome
SecondAnswered == prev # NoPrev /\ Answered

SpawnFailureBody ==
    Templated(<<Lit("Unable to spawn executable '"), PathText(PathParam(req.path)), Lit("'")>>)

\* the body root_handler gives when the child lacks an output handle
NoHandleBody == Templated(<<Lit("Something went wrong!")>>)

(* C15: when the spawn fails, or the child comes without one of its output *)
(* handles, the request ends with status 500 and one templated body: the   *)
(* message naming the requested file when nothing was spawned, the generic *)
(* message when the child was.  The 500 is the first status the request    *)
(* gets, nothing of the output stream was started, and an authorized       *)
(* request that ends in root_handler ends in no other way.                 *)
C15_SpawnFailureIs500 ==
    /\ [](status = 500 =>
            /\ pc = "done"
            /\ decision = Allow
            /\ phase = "none"
            /\ wrote = [s \in Sides |-> <<>>]
            /\ body = IF spawned = NoPath THEN SpawnFailureBody ELSE NoHandleBody)
    /\ []((pc = "done" /\ decision = Allow /\ ScopeRest(req.path) = <<>>) => status = 500)
    /\ [][status' = 500 => (status = 0 /\ body = <<>> /\ pc = "handler")]_vars

\* the spawn fails although the validator found a regular file
C15_Witness ==
    /\ status = 500
    /\ spawned = NoPath
    /\ fileKind = "file"
    /\ body = SpawnFailureBody

(* C16: the stream is pull-driven.  Bytes leave a pipe only in a poll of   *)
(* the body stream, which hands them to the transport in the same step;    *)
(* the transport holds at most MaxBuffered items of a streamed response    *)
(* that the client has not taken, and while it holds that many nothing     *)
(* more is read from the child.                                            *)
C16_PullDriven ==
    /\ [](\A s \in Sides : EmittedBytes(s) = SubSeq(wrote[s], 1, rd[s]))
    /\ [](status = 200 => Buffered <= MaxBuffered)
    /\ [][Buffered >= MaxBuffered => (rd' = rd /\ body' = body)]_vars
    /\ [][rd' # rd => (Buffered < MaxBuffered /\ Len(body') = Len(body) + 1)]_vars

\* the client has stopped reading, the transport holds all it may, and
\* output of the child waits in a pipe, unread
C16_Witness ==
    /\ ~writable
    /\ Buffered = MaxBuffered
    /\ phase = "merged"
    /\ \E s \in Sides : Ready(s)

(* C17: chunks are opaque bytes: whatever a read returns, valid UTF-8 on   *)
(* its own or not, is converted and handed on, and the conversion never    *)
(* aborts the response.                                                    *)
C17_ConversionNeverAborts ==
    /\ phase # "panicked"
    /\ \A s \in Sides : EmittedBytes(s) = SubSeq(wrote[s], 1, rd[s])

(* C18: when the child has closed both channels and no read failed, the    *)
(* streamed response does not end before it is complete: once it is over,  *)
(* both channels were read to their end, every byte the child wrote is in  *)
(* the body, and the trailer was sent.                                     *)
C18_EndsComplete ==
    (/\ status = 200
     /\ pc = "done"
     /\ phase # "failed"
     /\ \A s \in Sides : closed[s]) =>
        /\ phase = "finished"
        /\ HasTrailer
        /\ \A s \in Sides : AtEnd(s) /\ EmittedBytes(s) = wrote[s]

\* some configured user with the request's credentials is in a group whose
\* pattern matches the file name
SomeMatchingUserHasAccess ==
    \E u \in Range(config.user) :
        /\ u.username = req.creds.user_id
        /\ u.password = req.creds.password
        /\ \E g \in Range(config.group) :
              g.name \in Range(u.groups) /\ is_match(g.regex, Filename)

(* C19: when several configured users have the request's user name and     *)
(* password, the first of them in configuration order alone decides: the   *)
(* request for a safely named regular file outside the passwordless group  *)
(* reaches the handler if that user is in a matching group, and is refused *)
(* with 401 if not, also when a later such user is in one.                 *)
C19_FirstMatchingUserDecides ==
    (/\ Answered
     /\ ScopeMatches(req.path)
     /\ FILENAME_REGEX(Filename)
     /\ fileKind = "file"
     /\ ~PasswordlessMatch
     /\ KnownUser) =>
        IF InMatchingGroup
        THEN decision = Allow /\ ReachedHandler
        ELSE /\ status = 401
             /\ BodySays("You don't have access to this executable")
             /\ spawned = NoPath

\* refused with 401 although a later user with the same credentials is in a
\* matching group
C19_Witness ==
    /\ pc = "done"
    /\ status = 401
    /\ KnownUser
    /\ ~InMatchingGroup
    /\ SomeMatchingUserHasAccess

(* C20: the merge takes turns.  A chunk given while the other channel had  *)
(* a chunk ready is followed, at the next poll that gives anything, by     *)
(* the chunk of that other channel, which is first in line meanwhile: so   *)
(* chunks given in a row with both channels ready alternate between the    *)
(* channels, and a ready chunk is given at the latest by the second poll.  *)
C20_MergeTakesTurns ==
    /\ []((rival > 0 /\ phase = "merged") =>
            /\ body[Len(body)].kind = "chunk"
            /\ Ready(Other(body[Len(body)].src))
            /\ selState = "Start"
            /\ SideOf(selLast) = Other(body[Len(body)].src))
    /\ [](\A i \in (Len(body) - rival + 1)..(Len(body) - 1) :
            /\ i >= 2
            /\ body[i].kind = "chunk"
            /\ body[i + 1].kind = "chunk"
            /\ body[i + 1].src = Other(body[i].src))
    /\ [][(rival > 0 /\ phase = "merged" /\ body' # body) =>
            /\ Len(body') = Len(body) + 1
            /\ body'[Len(body')].kind = "chunk"
            /\ body'[Len(body')].src = Other(body[Len(body)].src)]_vars

\* two polls in a row found both channels ready and gave one chunk of each
C20_Witness ==
    /\ rival > 1
    /\ phase = "merged"

====
